---- MODULE Spec2Model ----
(***************************************************************************)
(* Model of the asimovrpc JSON-RPC client: the client value built by New,  *)
(* the transport routine Call, the decoding helper call, and the facade    *)
(* operations built on them.  A caller is a goroutine that invokes one     *)
(* facade operation at a time on one of the client instances.  The node    *)
(* and the HTTP transport are the environment: they choose what Post and   *)
(* ReadAll return.                                                         *)
(*                                                                         *)
(* JSON texts are modelled by themselves (strings); a decoded Go value is  *)
(* a record [go, of, txs]: go is the shape of the Go value (nil, zero,     *)
(* empty, ptrZero, partial, val), of is the JSON text a decoded value was  *)
(* read from, txs is the variant of Block.Transactions.                    *)
(***************************************************************************)
EXTENDS Integers, Sequences, FiniteSets, TLC

\* Number of concurrent callers of the concurrent specification.
NumCallers == 2

\* Number of distinct JSON-RPC error codes the node may answer with.
NumCodes == 2

Clients == {"A", "B"}

URL == "http://127.0.0.1:8545"

VARIABLES rpc, calls, harness

vars == <<rpc, calls, harness>>

----------------------------------------------------------------------------
\* Go values

R(go, of, txs) == [go |-> go, of |-> of, txs |-> txs]

GoNil == R("nil", "", "")

GoZero == R("zero", "", "")

GoEmpty == R("empty", "", "")

GoPtrZero == R("ptrZero", "", "")

GoPartial == R("partial", "", "")

GoVal(of) == R("val", of, "")

E(kind, code, message) == [kind |-> kind, code |-> code, message |-> message]

NoErr == E("none", 0, "")

\* AsimovError{Code, Message}
AsimovError(code, message) == E("AsimovError", code, message)

----------------------------------------------------------------------------
\* JSON texts the node may put in the "result" member

\* "result" is missing from the envelope: the RawMessage stays empty
NoResult == ""

SyncObj == "{\"startingBlock\":\"0x0\",\"currentBlock\":\"0x5\",\"highestBlock\":\"0xa\"}"

BlockHashes == "{\"number\":\"0x1\",\"transactions\":[\"0xa\"]}"

BlockFull == "{\"number\":\"0x1\",\"transactions\":[{\"hash\":\"0xa\"}]}"

TxObj == "{\"hash\":\"0xa\",\"blockNumber\":\"0x1\"}"

ReceiptObj == "{\"transactionHash\":\"0xa\",\"status\":\"0x1\"}"

\* an object whose members have the wrong JSON type for every record
BadObj == "{\"startingBlock\":true,\"number\":true,\"blockNumber\":true}"

Strings == {"\"0x5\"", "\"zz\""}

Arrays == {"[]", "[\"0xa\"]", "[{}]"}

Objects == {"{}", SyncObj, BlockHashes, BlockFull, TxObj, ReceiptObj, BadObj}

Payloads == {NoResult, "null", "false", "true", "5"} \cup Strings \cup Arrays \cup Objects

JSONType(p) ==
    CASE p = NoResult -> "empty"
      [] p = "null" -> "null"
      [] p \in {"true", "false"} -> "bool"
      [] p = "5" -> "number"
      [] p \in Strings -> "string"
      [] p \in Arrays -> "array"
      [] OTHER -> "object"

\* The object fixtures a record type is decoded from: its own, the empty
\* object and the ill-typed one.
Fixtures(kind) ==
    CASE kind = "syncing" -> {SyncObj}
      [] kind = "block" -> {BlockHashes, BlockFull}
      [] kind = "transaction" -> {TxObj}
      [] kind = "receipt" -> {ReceiptObj}
      [] kind = "raw" -> Objects
      [] OTHER -> {}

PayloadsFor(kind) == (Payloads \ Objects) \cup {"{}", BadObj} \cup Fixtures(kind)

----------------------------------------------------------------------------
\* The facade: one operation per remote method

F(op, method, kind) == [op |-> op, method |-> method, kind |-> kind]

Facade == {
    F("Web3ClientVersion", "web3_clientVersion", "string"),
    F("Web3Sha3", "web3_sha3", "string"),
    F("NetVersion", "net_version", "string"),
    F("NetListening", "net_listening", "bool"),
    F("NetPeerCount", "net_peerCount", "int"),
    F("AsimovProtocolVersion", "flow_protocolVersion", "string"),
    F("AsimovSyncing", "flow_syncing", "syncing"),
    F("AsimovCoinbase", "flow_coinbase", "string"),
    F("AsimovMining", "flow_mining", "bool"),
    F("AsimovHashrate", "flow_hashrate", "int"),
    F("AsimovGasPrice", "flow_gasPrice", "bigint"),
    F("AsimovAccounts", "flow_accounts", "strings"),
    F("AsimovBlockNumber", "flow_blockNumber", "int"),
    F("AsimovGetBalance", "flow_getBalance", "bigint"),
    F("AsimovGetStorageAt", "flow_getStorageAt", "string"),
    F("AsimovGetTransactionCount", "flow_getTransactionCount", "int"),
    F("AsimovGetBlockTransactionCountByHash", "flow_getBlockTransactionCountByHash", "int"),
    F("AsimovGetBlockTransactionCountByNumber", "flow_getBlockTransactionCountByNumber", "int"),
    F("AsimovGetUncleCountByBlockHash", "flow_getUncleCountByBlockHash", "int"),
    F("AsimovGetUncleCountByBlockNumber", "flow_getUncleCountByBlockNumber", "int"),
    F("AsimovGetCode", "flow_getCode", "string"),
    F("AsimovSign", "flow_sign", "string"),
    F("AsimovSendTransaction", "flow_sendTransaction", "string"),
    F("AsimovSendRawTransaction", "flow_sendRawTransaction", "string"),
    F("AsimovCall", "flow_call", "string"),
    F("AsimovEstimateGas", "flow_estimateGas", "int"),
    F("AsimovGetBlockByHash", "flow_getBlockByHash", "block"),
    F("AsimovGetBlockByNumber", "flow_getBlockByNumber", "block"),
    F("AsimovGetTransactionByHash", "flow_getTransactionByHash", "transaction"),
    F("AsimovGetTransactionByBlockHashAndIndex", "flow_getTransactionByBlockHashAndIndex", "transaction"),
    F("AsimovGetTransactionByBlockNumberAndIndex", "flow_getTransactionByBlockNumberAndIndex", "transaction"),
    F("AsimovGetTransactionReceipt", "flow_getTransactionReceipt", "receipt"),
    F("AsimovGetCompilers", "flow_getCompilers", "strings"),
    F("AsimovNewFilter", "flow_newFilter", "string"),
    F("AsimovNewBlockFilter", "flow_newBlockFilter", "string"),
    F("AsimovNewPendingTransactionFilter", "flow_newPendingTransactionFilter", "string"),
    F("AsimovUninstallFilter", "flow_uninstallFilter", "bool"),
    F("AsimovGetFilterChanges", "flow_getFilterChanges", "logs"),
    F("AsimovGetFilterLogs", "flow_getFilterLogs", "logs"),
    F("AsimovGetLogs", "flow_getLogs", "logs")
}

\* Call and RawCall take the method name from the caller
RawOps == {F("Call", "any_method", "raw"), F("RawCall", "any_method", "raw")}

Ops == Facade \cup RawOps

OpNames == {f.op : f \in Ops}

Entry(op) == CHOOSE f \in Ops : f.op = op

Kind(op) == Entry(op).kind

Method(op) == Entry(op).method

BlockOps == {f.op : f \in {g \in Facade : g.kind = "block"}}

ScalarKinds == {"string", "bool", "int", "bigint", "strings", "logs"}

LookupKinds == {"transaction", "receipt"}

----------------------------------------------------------------------------
\* Decoding

V(val, err) == [val |-> val, err |-> err]

SyntaxError == E("SyntaxError", 0, "")

UnmarshalTypeError == E("UnmarshalTypeError", 0, "")

FormatError == E("FormatError", 0, "")

\* json.Unmarshal(data, target) where target holds init: the value of the
\* target afterwards, and the error.  Empty data is a syntax error; the
\* literal null leaves a scalar or a struct untouched and sets a slice to
\* nil, without error; a JSON value of another type is a type error.
Unmarshal(target, init, data) ==
    LET t == JSONType(data) IN
    CASE t = "empty" -> V(init, SyntaxError)
      [] t = "null" ->
            IF target \in {"strings", "logs"} THEN V(GoNil, NoErr) ELSE V(init, NoErr)
      [] target = "string" ->
            IF t = "string" THEN V(GoVal(data), NoErr) ELSE V(init, UnmarshalTypeError)
      [] target = "bool" ->
            IF t = "bool" THEN V(GoVal(data), NoErr) ELSE V(init, UnmarshalTypeError)
      [] target = "strings" ->
            CASE data = "[]" -> V(GoEmpty, NoErr)
              [] data = "[\"0xa\"]" -> V(GoVal(data), NoErr)
              [] data = "[{}]" -> V(GoPartial, UnmarshalTypeError)
              [] OTHER -> V(init, UnmarshalTypeError)
      [] target = "logs" ->
            CASE data = "[]" -> V(GoEmpty, NoErr)
              [] data = "[{}]" -> V(GoVal(data), NoErr)
              [] data = "[\"0xa\"]" -> V(GoPartial, UnmarshalTypeError)
              [] OTHER -> V(init, UnmarshalTypeError)
      [] OTHER -> V(init, UnmarshalTypeError)

\* Decoding into one of the record types Syncing, Transaction and
\* TransactionReceipt: empty data, null and non-objects as in Unmarshal; the
\* empty object leaves the zero record; the record's own object fills it.
UnmarshalRecord(kind, init, data) ==
    LET t == JSONType(data) IN
    CASE t = "empty" -> V(init, SyntaxError)
      [] t = "null" -> V(init, NoErr)
      [] t # "object" -> V(init, UnmarshalTypeError)
      [] data = "{}" -> V(init, NoErr)
      [] data \in Fixtures(kind) -> V(GoVal(data), NoErr)
      [] OTHER -> V(init, UnmarshalTypeError)

\* Decoding into proxyBlockWithTransactions (full = TRUE) or
\* proxyBlockWithoutTransactions, followed by toBlock: the block's
\* transaction list holds full records or hashes according to the proxy.
UnmarshalProxyBlock(full, data) ==
    LET t == JSONType(data)
        variant == IF full THEN "full" ELSE "hashes"
        own == IF full THEN BlockFull ELSE BlockHashes
    IN
    CASE t = "empty" -> V(GoNil, SyntaxError)
      [] t = "null" -> V(R("ptrZero", "", variant), NoErr)
      [] t # "object" -> V(GoNil, UnmarshalTypeError)
      [] data = "{}" -> V(R("ptrZero", "", variant), NoErr)
      [] data = own -> V(R("val", data, variant), NoErr)
      [] OTHER -> V(GoNil, UnmarshalTypeError)

\* ParseInt and ParseBigInt on the string the response was decoded into
ParseInt(response) ==
    IF response = GoVal("\"0x5\"") THEN V(response, NoErr) ELSE V(GoZero, FormatError)

ParseBigInt(response) ==
    IF response = GoVal("\"0x5\"") THEN V(response, NoErr) ELSE V(GoZero, FormatError)

----------------------------------------------------------------------------
\* Response bodies

Codes == {-32000 - i : i \in 0 .. (NumCodes - 1)}

Body(json, result, error, code, message) ==
    [json |-> json, result |-> result, error |-> error, code |-> code, message |-> message]

NoBody == Body("", "", "", 0, "")

Garbage == Body("garbage", "", "", 0, "")

NullBody == Body("null", "", "", 0, "")

\* the payloads an error envelope carries next to its error
ErrPayloads == {NoResult, "\"0x5\"", "{}"}

Bodies(kind) ==
    {Garbage, NullBody}
        \cup {Body("envelope", p, "", 0, "") : p \in PayloadsFor(kind)}
        \cup {Body("envelope", "\"0x5\"", "null", 0, "")}
        \cup {Body("envelope", NoResult, "string", 0, "")}
        \cup {Body("envelope", p, "object", c, "x") : p \in ErrPayloads, c \in Codes}

\* json.Unmarshal(data, resp) for resp := new(asimovResponse)
ParseEnvelope(data) ==
    CASE data.json = "garbage" -> [err |-> SyntaxError, Result |-> NoResult, Error |-> NoErr]
      [] data.json = "null" -> [err |-> NoErr, Result |-> NoResult, Error |-> NoErr]
      [] data.error = "string" ->
            [err |-> UnmarshalTypeError, Result |-> data.result, Error |-> NoErr]
      [] data.error = "object" ->
            [err |-> NoErr, Result |-> data.result,
             Error |-> AsimovError(data.code, data.message)]
      [] OTHER -> [err |-> NoErr, Result |-> data.result, Error |-> NoErr]

\* What Call returns once the body has been read: lines 114-123
CallReturn(data) ==
    LET resp == ParseEnvelope(data) IN
    IF resp.err # NoErr THEN [result |-> NoResult, err |-> resp.err]
    ELSE IF resp.Error # NoErr THEN [result |-> NoResult, err |-> resp.Error]
    ELSE [result |-> resp.Result, err |-> NoErr]

----------------------------------------------------------------------------
\* The facade operations, each applied to cr, the (result, err) of Call

\* rpc.call(method, target, params...)
call(target, init, cr) ==
    IF cr.err # NoErr THEN V(init, cr.err)
    ELSE IF target \in {"syncing", "transaction", "receipt"}
         THEN UnmarshalRecord(target, init, cr.result)
         ELSE Unmarshal(target, init, cr.result)

\* Call and RawCall
RawCall(cr) ==
    IF cr.err # NoErr THEN V(GoNil, cr.err)
    ELSE V(IF cr.result = NoResult THEN GoNil ELSE GoVal(cr.result), NoErr)

\* var v string (or bool); err := rpc.call(m, &v, ...); return v, err
ScalarOp(kind, cr) == call(kind, GoZero, cr)

\* var response string; if err := rpc.call(...); err != nil { return 0, err }
\* return ParseInt(response)
IntOp(cr) ==
    LET r == call("string", GoZero, cr) IN
    IF r.err # NoErr THEN V(GoZero, r.err) ELSE ParseInt(r.val)

BigIntOp(cr) ==
    LET r == call("string", GoZero, cr) IN
    IF r.err # NoErr THEN V(GoZero, r.err) ELSE ParseBigInt(r.val)

\* list := []T{}; err := rpc.call(m, &list, ...); return list, err
ListOp(kind, cr) == call(kind, GoEmpty, cr)

\* AsimovSyncing without the inspection of the payload
AsimovSyncingNoInspect(cr) ==
    IF cr.err # NoErr THEN V(GoNil, cr.err)
    ELSE UnmarshalRecord("syncing", GoPtrZero, cr.result)

\* result, err := rpc.RawCall("flow_syncing"); the literal false is answered
\* without decoding
AsimovSyncing(cr) ==
    IF cr.err # NoErr THEN V(GoNil, cr.err)
    ELSE IF cr.result = "false" THEN V(GoPtrZero, NoErr)
    ELSE UnmarshalRecord("syncing", GoPtrZero, cr.result)

\* a selection of the proxy that looks at the payload
SelectProxyByPayload(withTransactions, result) == result = BlockFull

\* the proxy getBlock decodes into: TRUE for proxyBlockWithTransactions
SelectProxy(withTransactions, result) == withTransactions

\* getBlock without the check for null
getBlockNoNullCheck(withTransactions, cr) ==
    IF cr.err # NoErr THEN V(GoNil, cr.err)
    ELSE LET r == UnmarshalProxyBlock(SelectProxy(withTransactions, cr.result), cr.result)
         IN IF r.err # NoErr THEN V(GoNil, r.err) ELSE V(r.val, NoErr)

\* result, err := rpc.RawCall(method, params...); null is answered (nil, nil)
getBlock(withTransactions, cr) ==
    IF cr.err # NoErr THEN V(GoNil, cr.err)
    ELSE IF cr.result = "null" THEN V(GoNil, NoErr)
    ELSE LET r == UnmarshalProxyBlock(SelectProxy(withTransactions, cr.result), cr.result)
         IN IF r.err # NoErr THEN V(GoNil, r.err) ELSE V(r.val, NoErr)

\* transaction := new(Transaction); err := rpc.call(m, transaction, ...)
\* return transaction, err
getTransaction(cr) == call("transaction", GoPtrZero, cr)

AsimovGetTransactionReceipt(cr) ==
    LET r == call("receipt", GoPtrZero, cr) IN
    IF r.err # NoErr THEN V(GoNil, r.err) ELSE V(r.val, NoErr)

\* What the operation op returns to its caller
FacadeReturn(op, withTransactions, cr) ==
    LET kind == Kind(op) IN
    CASE kind = "raw" -> RawCall(cr)
      [] kind \in {"string", "bool"} -> ScalarOp(kind, cr)
      [] kind = "int" -> IntOp(cr)
      [] kind = "bigint" -> BigIntOp(cr)
      [] kind \in {"strings", "logs"} -> ListOp(kind, cr)
      [] kind = "syncing" -> AsimovSyncing(cr)
      [] kind = "block" -> getBlock(withTransactions, cr)
      [] kind = "transaction" -> getTransaction(cr)
      [] kind = "receipt" -> AsimovGetTransactionReceipt(cr)

BoolText(b) == IF b THEN "true" ELSE "false"

\* The params of the request: a block lookup sends the block's identifier
\* and the flag; the arguments of the other operations are opaque.
BlockParams(op, withTransactions) ==
    <<IF op = "AsimovGetBlockByHash" THEN "hash" ELSE "IntToHex(number)",
      BoolText(withTransactions)>>

Params(op, withTransactions) ==
    IF op \in BlockOps THEN BlockParams(op, withTransactions) ELSE <<"args">>

\* asimovRequest{ID: 1, JSONRPC: "2.0", Method: method, Params: params}
asimovRequest(method, params) ==
    [id |-> 1, jsonrpc |-> "2.0", method |-> method, params |-> params]

NoRequest == [id |-> 0, jsonrpc |-> "", method |-> "", params |-> <<>>]

----------------------------------------------------------------------------
\* The client

\* options are applied in order to the value New builds
WithHttpClient(client) == [field |-> "client", str |-> client, flag |-> FALSE]

WithLogger(l) == [field |-> "log", str |-> l, flag |-> FALSE]

WithDebug(enabled) == [field |-> "Debug", str |-> "", flag |-> enabled]

Apply(r, option) ==
    CASE option.field = "client" -> [r EXCEPT !.client = option.str]
      [] option.field = "log" -> [r EXCEPT !.log = option.str]
      [] option.field = "Debug" -> [r EXCEPT !.Debug = option.flag]

RECURSIVE ApplyAll(_, _)
ApplyAll(r, options) ==
    IF options = <<>> THEN r ELSE ApplyAll(Apply(r, Head(options)), Tail(options))

New(url, options) ==
    ApplyAll([url |-> url, client |-> "http.DefaultClient", log |-> "os.Stderr",
              Debug |-> FALSE], options)

----------------------------------------------------------------------------
\* State

\* One invocation of a facade operation by a caller: the locals of Call
\* (request, response, data), what was sent, what came back, what the
\* logger printed for it, and what was returned.
Idle ==
    [pc |-> "idle", k |-> "A", op |-> "Call", flag |-> FALSE,
     req |-> NoRequest, url |-> "", contentType |-> "", posts |-> 0,
     wire |-> "", body |-> NoBody, resp |-> FALSE, deferred |-> FALSE,
     closed |-> 0, readClosed |-> FALSE, log |-> <<>>,
     val |-> GoNil, err |-> NoErr, returns |-> 0]

\* What the transport does with a POST: Post fails without a response,
\* Post fails with a response, the body cannot be read, the body is read.
Wires == {"posterr", "posterr+resp", "readerr", "ok"}

TransportError == E("TransportError", 0, "")

ReadError == E("ReadError", 0, "")

MarshalError == E("MarshalError", 0, "")

Callers == harness.callers

\* What a run exercises: every operation and payload with one caller, or
\* Call with a few payloads when several callers run.
OpsIn(scope) == IF scope = "all" THEN OpNames ELSE {"Call"}

PayloadsIn(scope) == IF scope = "all" THEN Payloads ELSE {"false", "{}"}

InitWith(h) ==
    /\ rpc = [k \in Clients |->
                IF k = "A" THEN New(URL, <<>>)
                ELSE New(URL, <<WithHttpClient("mock"), WithLogger("buffer"),
                                WithDebug(TRUE)>>)]
    /\ harness = h
    /\ calls = [c \in h.callers |-> Idle]

Init == InitWith([callers |-> {1}, scope |-> "all"])

InitConc == InitWith([callers |-> 1 .. NumCallers, scope |-> "concurrent"])

\* the bodies the node serves
Served(b) == b.json = "envelope" => b.result \in PayloadsIn(harness.scope)

\* Call returns cr and the facade operation returns to its caller; the
\* deferred Body.Close runs when Call returns.
Finish(inv, cr) ==
    LET out == FacadeReturn(inv.op, inv.flag, cr) IN
    [inv EXCEPT !.pc = "done",
                 !.closed = @ + (IF inv.deferred THEN 1 ELSE 0),
                 !.val = out.val, !.err = out.err, !.returns = @ + 1]

\* a Call that switches Debug off once it has run
rpcAfterCallClearsDebug(r) == [r EXCEPT !.Debug = FALSE]

\* Call reads rpc.url, rpc.client, rpc.Debug and rpc.log and assigns none
rpcAfterCall(r) == r

\* a defer placed after the check of err
DeferCloseAfterCheck(response, failed) == response /\ ~failed

\* if response != nil { defer response.Body.Close() }, which precedes the
\* check of err
DeferClose(response, failed) == response

----------------------------------------------------------------------------
\* Actions

\* A caller invokes op on client k: the request is built and marshalled and,
\* unless that fails, posted.
Invoke(c) ==
    \E k \in Clients, op \in OpsIn(harness.scope), flag \in BOOLEAN, ser \in BOOLEAN :
        /\ calls[c].pc = "idle"
        /\ flag => op \in BlockOps
        /\ ~ser => Kind(op) = "raw"
        /\ LET request == asimovRequest(Method(op), Params(op, flag))
               started == [calls[c] EXCEPT !.k = k, !.op = op, !.flag = flag]
           IN IF ~ser
              THEN calls' = [calls EXCEPT ![c] =
                        Finish(started, [result |-> NoResult, err |-> MarshalError])]
              ELSE calls' = [calls EXCEPT ![c] =
                        [started EXCEPT !.pc = "inflight", !.req = request,
                                        !.url = rpc[k].url,
                                        !.contentType = "application/json",
                                        !.posts = @ + 1]]
        /\ UNCHANGED <<rpc, harness>>

\* a Call that posts again after a transport failure
RespondWithRetry(c) ==
    \E w \in Wires, b \in Bodies(Kind(calls[c].op)) \cup {NoBody} :
        /\ calls[c].pc = "inflight"
        /\ IF w = "ok" THEN Served(b) ELSE b = NoBody
        /\ LET failed == w \in {"posterr", "posterr+resp"}
               got == [calls[c] EXCEPT !.wire = w, !.body = b,
                                       !.resp = (w # "posterr"),
                                       !.deferred = DeferClose(w # "posterr", failed)]
           IN IF failed /\ calls[c].posts < 2
              THEN calls' = [calls EXCEPT ![c] = [calls[c] EXCEPT !.posts = @ + 1]]
              ELSE IF failed
              THEN calls' = [calls EXCEPT ![c] =
                        Finish(got, [result |-> NoResult, err |-> TransportError])]
              ELSE calls' = [calls EXCEPT ![c] = [got EXCEPT !.pc = "reading"]]
        /\ rpc' = [rpc EXCEPT ![calls[c].k] = rpcAfterCall(@)]
        /\ UNCHANGED harness

\* Post returns (lines 97-103).  A transport that fails is not asked again.
\* A transport that returns no error returns a response.
Respond(c) ==
    \E w \in Wires, b \in Bodies(Kind(calls[c].op)) \cup {NoBody} :
        /\ calls[c].pc = "inflight"
        /\ IF w = "ok" THEN Served(b) ELSE b = NoBody
        /\ LET failed == w \in {"posterr", "posterr+resp"}
               got == [calls[c] EXCEPT !.wire = w, !.body = b,
                                       !.resp = (w # "posterr"),
                                       !.deferred = DeferClose(w # "posterr", failed)]
           IN IF failed
              THEN calls' = [calls EXCEPT ![c] =
                        Finish(got, [result |-> NoResult, err |-> TransportError])]
              ELSE calls' = [calls EXCEPT ![c] = [got EXCEPT !.pc = "reading"]]
        /\ rpc' = [rpc EXCEPT ![calls[c].k] = rpcAfterCall(@)]
        /\ UNCHANGED harness

\* the line the logger prints: method, request body, response body
LogLine(inv) == [method |-> inv.req.method, request |-> inv.req, response |-> inv.body]

\* a Call whose debug branch returns the payload without looking at the error
ReadBodyDebugReturnsRaw(c) ==
    /\ calls[c].pc = "reading"
    /\ LET inv == [calls[c] EXCEPT !.readClosed = (calls[c].closed > 0)]
           debug == rpc[inv.k].Debug
           logged == [inv EXCEPT !.log = IF debug THEN Append(@, LogLine(inv)) ELSE @]
       IN IF inv.wire = "readerr"
          THEN calls' = [calls EXCEPT ![c] =
                    Finish(inv, [result |-> NoResult, err |-> ReadError])]
          ELSE IF debug
          THEN calls' = [calls EXCEPT ![c] =
                    Finish(logged, [result |-> inv.body.result, err |-> NoErr])]
          ELSE calls' = [calls EXCEPT ![c] = Finish(logged, CallReturn(inv.body))]
    /\ rpc' = [rpc EXCEPT ![calls[c].k] = rpcAfterCall(@)]
    /\ UNCHANGED harness

\* ReadAll, the debug line, the envelope and the return (lines 105-125)
ReadBody(c) ==
    /\ calls[c].pc = "reading"
    /\ LET inv == [calls[c] EXCEPT !.readClosed = (calls[c].closed > 0)]
           debug == rpc[inv.k].Debug
           logged == [inv EXCEPT !.log = IF debug THEN Append(@, LogLine(inv)) ELSE @]
       IN IF inv.wire = "readerr"
          THEN calls' = [calls EXCEPT ![c] =
                    Finish(inv, [result |-> NoResult, err |-> ReadError])]
          ELSE calls' = [calls EXCEPT ![c] = Finish(logged, CallReturn(inv.body))]
    /\ rpc' = [rpc EXCEPT ![calls[c].k] = rpcAfterCall(@)]
    /\ UNCHANGED harness

\* The caller takes what the operation returned and is free to call again
Collect(c) ==
    /\ calls[c].pc = "done"
    /\ calls' = [calls EXCEPT ![c] = Idle]
    /\ UNCHANGED <<rpc, harness>>

Next ==
    \/ \E c \in Callers : Invoke(c)
    \/ \E c \in Callers : Respond(c)
    \/ \E c \in Callers : ReadBody(c)
    \/ \E c \in Callers : Collect(c)

Spec == Init /\ [][Next]_vars

SpecConc == InitConc /\ [][Next]_vars

----------------------------------------------------------------------------
\* Properties

Done(c) == calls[c].pc = "done"

\* the body was read and is an envelope that json.Unmarshal accepts
Parsed(c) ==
    /\ calls[c].wire = "ok"
    /\ ParseEnvelope(calls[c].body).err = NoErr

\* ... and it carries an error object
RemoteFailure(c) == Parsed(c) /\ ParseEnvelope(calls[c].body).Error # NoErr

\* ... or it carries none, and the operation is left with the payload
Answered(c) == Parsed(c) /\ ParseEnvelope(calls[c].body).Error = NoErr

Payload(c) == ParseEnvelope(calls[c].body).Result

\* what Call is to return for the transport behaviour the caller met
Expected(c) ==
    CASE calls[c].wire = "" -> [result |-> NoResult, err |-> MarshalError]
      [] calls[c].wire \in {"posterr", "posterr+resp"} ->
            [result |-> NoResult, err |-> TransportError]
      [] calls[c].wire = "readerr" -> [result |-> NoResult, err |-> ReadError]
      [] ParseEnvelope(calls[c].body).err # NoErr ->
            [result |-> NoResult, err |-> ParseEnvelope(calls[c].body).err]
      [] RemoteFailure(c) ->
            [result |-> NoResult,
             err |-> AsimovError(calls[c].body.code, calls[c].body.message)]
      [] OTHER -> [result |-> calls[c].body.result, err |-> NoErr]

\* C1: when the envelope parses and carries an error object, the operation
\* returns an AsimovError with that code and message, and the value next to
\* it is nil or the zero value of the return type (an empty list is counted
\* as carrying no result).
C1_RemoteErrorNoPartialResult ==
    \A c \in Callers :
        (Done(c) /\ RemoteFailure(c)) =>
            /\ calls[c].err = AsimovError(calls[c].body.code, calls[c].body.message)
            /\ calls[c].val.go \in {"nil", "zero", "empty"}

\* C2: a call whose arguments marshal issues exactly one POST, of content
\* type application/json, to the configured URL, whatever the outcome; a
\* failure is returned once, as the single outcome of the call.
C2_ExactlyOnePost ==
    \A c \in Callers :
        /\ calls[c].posts <= 1
        /\ calls[c].returns <= 1
        /\ calls[c].pc \in {"inflight", "reading"} =>
                calls[c].posts = 1 /\ calls[c].returns = 0
        /\ calls[c].posts = 1 =>
                /\ calls[c].contentType = "application/json"
                /\ calls[c].url = rpc[calls[c].k].url
                /\ calls[c].req = asimovRequest(Method(calls[c].op),
                                                Params(calls[c].op, calls[c].flag))
        /\ Done(c) =>
                /\ calls[c].returns = 1
                /\ calls[c].posts = (IF calls[c].err = MarshalError THEN 0 ELSE 1)
                /\ (calls[c].wire # "ok" \/ ~Answered(c)) => calls[c].err = Expected(c).err

C2_Witness ==
    \E c \in Callers :
        Done(c) /\ calls[c].wire = "posterr" /\ calls[c].posts = 1
            /\ calls[c].err = TransportError

\* C3: a block lookup answered with the payload null returns (nil, nil);
\* answered with any other payload it returns a block or an error, never
\* both nil and never both.
C3_BlockNullIsAbsent ==
    \A c \in Callers :
        (Done(c) /\ calls[c].op \in BlockOps /\ Answered(c)) =>
            IF Payload(c) = "null"
            THEN calls[c].val = GoNil /\ calls[c].err = NoErr
            ELSE (calls[c].val = GoNil) # (calls[c].err = NoErr)

C3_Witness ==
    \E c \in Callers :
        /\ Done(c) /\ calls[c].op = "AsimovGetBlockByHash" /\ calls[c].flag
        /\ Answered(c) /\ Payload(c) = "null"
        /\ calls[c].val = GoNil /\ calls[c].err = NoErr

\* C4: for the transaction and receipt lookups the payload null is not an
\* error, and what the operation returns for it differs from what it
\* returns for every other answer: a decoded record (the zero-valued one
\* included), a remote error, a transport error.
C4_LookupNullIsDistinctAbsence ==
    \A c \in Callers :
        (Done(c) /\ Kind(calls[c].op) \in LookupKinds) =>
            LET absent == FacadeReturn(calls[c].op, calls[c].flag,
                                       [result |-> "null", err |-> NoErr])
            IN /\ absent.err = NoErr
               /\ (Answered(c) /\ Payload(c) = "null")
                    \/ V(calls[c].val, calls[c].err) # absent

\* C5: AsimovSyncing returns (nil, err) when Call fails, a zero-valued status
\* and no error when the payload is the literal false, and otherwise what
\* decoding the payload into a Syncing gives, value and error.
C5_SyncingByPayload ==
    \A c \in Callers :
        (Done(c) /\ calls[c].op = "AsimovSyncing") =>
            LET cr == Expected(c)
                out == V(calls[c].val, calls[c].err)
            IN CASE cr.err # NoErr -> out = V(GoNil, cr.err)
                 [] cr.result = "false" -> out = V(GoPtrZero, NoErr)
                 [] OTHER -> out = UnmarshalRecord("syncing", GoPtrZero, cr.result)

C5_Witness ==
    \E c \in Callers :
        /\ Done(c) /\ calls[c].op = "AsimovSyncing"
        /\ Answered(c) /\ Payload(c) = "false"
        /\ calls[c].val = GoPtrZero /\ calls[c].err = NoErr

\* C6: in a block lookup the last parameter sent to the node is the caller's
\* flag, and a returned block holds full transaction records when the flag
\* is true and hashes when it is false, whatever the payload holds.
C6_BlockShapeByFlag ==
    \A c \in Callers :
        (calls[c].op \in BlockOps /\ calls[c].pc # "idle") =>
            /\ calls[c].req.params[Len(calls[c].req.params)] = BoolText(calls[c].flag)
            /\ (Done(c) /\ calls[c].val # GoNil) =>
                    calls[c].val.txs = (IF calls[c].flag THEN "full" ELSE "hashes")
            /\ (Done(c) /\ Answered(c)
                    /\ Payload(c) = (IF calls[c].flag THEN BlockHashes ELSE BlockFull)) =>
                    calls[c].val = GoNil /\ calls[c].err # NoErr

C6_Witness ==
    \E c \in Callers :
        /\ Done(c) /\ calls[c].op = "AsimovGetBlockByNumber" /\ calls[c].flag
        /\ calls[c].val = R("val", BlockFull, "full")
        /\ calls[c].req.params[2] = "true"

\* the JSON texts an operation of this kind can decode
Decodable(kind) ==
    CASE kind = "string" -> Strings
      [] kind = "bool" -> {"true", "false"}
      [] kind \in {"int", "bigint"} -> {"\"0x5\""}
      [] kind = "strings" -> {"[]", "[\"0xa\"]"}
      [] kind = "logs" -> {"[]", "[{}]"}
      [] kind = "syncing" -> {"false", "{}", SyncObj}
      [] kind = "block" -> {"null", "{}", BlockHashes, BlockFull}
      [] kind = "transaction" -> {"null", "{}", TxObj}
      [] kind = "receipt" -> {"null", "{}", ReceiptObj}
      [] OTHER -> Payloads

\* C7: when the envelope parses and carries no error, and the payload is not
\* of the shape a scalar-returning operation (string, bool, integer, list)
\* decodes, the operation returns an error: it never answers success with
\* the zero value for a payload it could not decode.
C7_ShapeMismatchIsAnError ==
    \A c \in Callers :
        (/\ Done(c) /\ Answered(c)
         /\ Kind(calls[c].op) \in ScalarKinds
         /\ Payload(c) \notin Decodable(Kind(calls[c].op))) =>
            calls[c].err # NoErr

\* what the caller's operation is to return for the response to its own POST
OwnOutcome(c) ==
    Done(c) => V(calls[c].val, calls[c].err)
                    = FacadeReturn(calls[c].op, calls[c].flag, Expected(c))

\* C8: no step of any call changes a field of a client, and what a caller
\* gets is what its own response determines, under every interleaving.
C8_NoSharedWrites ==
    [][rpc' = rpc /\ \A c \in Callers : OwnOutcome(c)']_vars

C8_Witness ==
    \E c1 \in Callers, c2 \in Callers :
        /\ c1 # c2 /\ calls[c1].k = calls[c2].k
        /\ calls[c1].op = calls[c2].op
        /\ Done(c1) /\ calls[c2].pc = "reading"
        /\ calls[c1].body # calls[c2].body
        /\ calls[c1].err # NoErr /\ calls[c2].body.error = ""

\* C9: two calls of the same operation that meet the same transport
\* behaviour return the same value and error and issue the same POST
\* whether or not Debug is set; a call prints at most one line (method,
\* request, response), only with Debug set and only once the body was read.
C9_DebugIsDiagnosticOnly ==
    /\ \A c1 \in Callers, c2 \in Callers :
            (/\ Done(c1) /\ Done(c2)
             /\ calls[c1].op = calls[c2].op /\ calls[c1].flag = calls[c2].flag
             /\ calls[c1].wire = calls[c2].wire /\ calls[c1].body = calls[c2].body
             /\ rpc[calls[c1].k].Debug # rpc[calls[c2].k].Debug) =>
                /\ calls[c1].val = calls[c2].val
                /\ calls[c1].err = calls[c2].err
                /\ calls[c1].posts = calls[c2].posts
                /\ calls[c1].req = calls[c2].req
                /\ calls[c1].url = calls[c2].url
                /\ calls[c1].contentType = calls[c2].contentType
    /\ \A c \in Callers :
            /\ Len(calls[c].log) <= 1
            /\ calls[c].log # <<>> =>
                    /\ rpc[calls[c].k].Debug /\ Done(c) /\ calls[c].wire = "ok"
                    /\ calls[c].log[1] = LogLine(calls[c])
            /\ (Done(c) /\ calls[c].wire = "ok" /\ rpc[calls[c].k].Debug) =>
                    Len(calls[c].log) = 1

C9_Witness ==
    \E c1 \in Callers, c2 \in Callers :
        /\ Done(c1) /\ Done(c2)
        /\ calls[c1].op = "Call" /\ calls[c2].op = "Call"
        /\ calls[c1].wire = "ok" /\ calls[c2].wire = "ok"
        /\ calls[c1].body = calls[c2].body /\ calls[c1].body.error = "object"
        /\ rpc[calls[c1].k].Debug /\ ~rpc[calls[c2].k].Debug
        /\ Len(calls[c1].log) = 1 /\ calls[c2].log = <<>>
        /\ calls[c1].err = calls[c2].err

\* C10: a response that Post returned is closed exactly once when Call
\* returns, on every path, never before, and its body is not read after
\* the close; without a response nothing is closed.
C10_BodyClosedOnce ==
    \A c \in Callers :
        /\ ~calls[c].readClosed
        /\ ~Done(c) => calls[c].closed = 0
        /\ Done(c) => calls[c].closed = (IF calls[c].resp THEN 1 ELSE 0)
        /\ Done(c) => (calls[c].resp <=> calls[c].wire \in {"posterr+resp", "readerr", "ok"})

C10_Witness ==
    \E c \in Callers :
        /\ Done(c) /\ calls[c].wire = "posterr+resp"
        /\ calls[c].resp /\ calls[c].closed = 1
        /\ calls[c].err = TransportError

====
